---- MODULE Spec2Model ----
(***************************************************************************)
(* Model of the Linux channel code of go-fuse:                             *)
(*   - Server.systemWrite  (fuse/server_linux.go, and the second revision  *)
(*     of the same method in the unnamed source part),                     *)
(*   - Server.trySplice    (fuse/splice_linux.go),                         *)
(*   - mount, mountDirect, parseFuseFd, callFusermount (unnamed part).     *)
(* Byte strings are TLA+ sequences; sizes are scaled down (a page is       *)
(* pageSize bytes, a header HdrLen bytes).                                 *)
(***************************************************************************)
EXTENDS Integers, Sequences, FiniteSets, TLC

\* ---------------------------------------------------------------- bounds
NumWriters == 2      \* writer goroutines that exist (Spec runs one of them)
MaxPayload == 5      \* largest payload size of a response
MaxPairs   == 3      \* pipe pairs the pool can create before pipe2 fails
MaxEINTR   == 2      \* interrupted writes in a row on the direct-write path

\* ----------------------------------------------- platform constants (scaled)
pageSize        == 2     \* the platform page
MaxPipeSize     == 8     \* splice.MaxPipeSize(): platform ceiling of a pipe
DefaultPipeSize == 2     \* capacity of a freshly created pipe
HdrLen          == 2     \* length of a serialized out-header

Writers == 1..NumWriters
Pairs   == 1..MaxPairs
NoPair  == 0

Min(a, b) == IF a < b THEN a ELSE b
Max(a, b) == IF a > b THEN a ELSE b
Take(s, k) == SubSeq(s, 1, Min(k, Len(s)))
Drop(s, k) == SubSeq(s, Min(k, Len(s)) + 1, Len(s))

RECURSIVE Flatten(_)
Flatten(bufs) == IF bufs = <<>> THEN <<>> ELSE Head(bufs) \o Flatten(Tail(bufs))

\* ------------------------------------------------------------- the request
\* Payload bytes of writer t: every byte is distinct, so truncation,
\* reordering and mixing of responses all show in the byte sequence.
Data(t, n) == [i \in 1..n |-> 10 * t + i]

\* request.serializeHeader(dataSize): a fixed-length header that carries the
\* request's identity and the payload length.
serializeHeader(t, n) == <<100 + t, n>>

\* The three payload representations of a request.
Kinds == {"fd", "slices", "flat"}

\* req.slices for a payload of n bytes: two discontiguous buffers.
Slices(t, n) == <<Take(Data(t, n), n \div 2), Drop(Data(t, n), n \div 2)>>

\* request.flatDataSize()
flatDataSize(r) ==
  IF r.kind = "fd" THEN r.fdSize
  ELSE IF r.kind = "slices" THEN Len(Flatten(r.slices))
  ELSE Len(r.flatData)

NewRequest(t, kind, n, rr) ==
  [kind       |-> kind,
   fdSize     |-> IF kind = "fd" THEN n ELSE 0,
   slices     |-> IF kind = "slices" THEN Slices(t, n) ELSE <<>>,
   flatData   |-> IF kind = "flat" THEN Data(t, n) ELSE <<>>,
   readResult |-> rr,
   status     |-> "OK"]

\* ToStatus(err)
ToStatus(err) == IF err = "nil" THEN "OK" ELSE "EIO"

VARIABLES
  build,      \* which revision of systemWrite is compiled in
  ms,         \* the Server: canSplice, opts.MinSpliceSize
  active,     \* the writers that issue responses
  load,       \* the responses the session produces: kinds, sizes, signals
  req,        \* req[t]: the request writer t is answering
  header,     \* header[t]: systemWrite's / trySplice's header variable
  pc,         \* pc[t]: position of writer t
  pair1,      \* pair1[t], pair2[t]: trySplice's borrowed pipe pairs
  pair2,
  pool,       \* the splice pool: every pipe pair, its capacity and contents
  chan,       \* chan[t]: channel system calls issued for t's response
  doneCnt,    \* doneCnt[t]: calls of req.readResult.Done()
  spliceErr,  \* spliceErr[t]: "none" (not attempted) or trySplice's result
  ret,        \* ret[t]: "none" or the Status systemWrite returned
  eintr,      \* eintr[t]: interrupted writes so far
  trace       \* trace[t]: what the call did (pairs borrowed, counts, ...)

wvars == <<build, ms, active, load, req, header, pc, pair1, pair2, pool, chan,
           doneCnt, spliceErr, ret, eintr, trace>>


\* ------------------------------------------------------------ the pipe pool
\* A pipe pair of the pool: not yet created ("none"), unused ("free") or
\* borrowed ("used") by writer `by`.
NoPipe == [st |-> "none", by |-> 0, cap |-> 0, buf |-> <<>>]

Held(pl, t) == {p \in Pairs : pl[p].st = "used" /\ pl[p].by = t}

\* splice.Get(): the outcomes of one borrow. An unused pair is reused; else a
\* new pair is created, which can fail; with every pair in use it fails.
GetOutcomes(pl) ==
  LET free == {p \in Pairs : pl[p].st = "free"}
      none == {p \in Pairs : pl[p].st = "none"}
      min(S) == CHOOSE x \in S : \A y \in S : x <= y
  IN  IF free # {} THEN {min(free)}
      ELSE IF none # {} THEN {min(none), NoPair}
      ELSE {NoPair}

\* The pool entry of pair p once writer t has borrowed it.
Borrow(pl, p, t) ==
  [pl EXCEPT ![p] = [st  |-> "used", by |-> t,
                     cap |-> IF pl[p].st = "none" THEN DefaultPipeSize ELSE pl[p].cap,
                     buf |-> <<>>]]

\* splice.Done(pair): drain the pipe and put the pair back.
spliceDone(pl, p) ==
  IF p = NoPair THEN pl
  ELSE [pl EXCEPT ![p] = [st |-> "free", by |-> 0, cap |-> pl[p].cap, buf |-> <<>>]]

\* Pair.Grow(n): the capacities the pipe can have afterwards; 0 is failure.
\* A pipe that is large enough is left alone, a request beyond the platform
\* maximum fails, and the resizing fcntl itself may fail.
GrowOutcomes(cap, n) ==
  IF n <= cap THEN {cap}
  ELSE IF n > MaxPipeSize THEN {0}
  ELSE {n, 0}

\* The byte counts a transfer of `want` bytes can report besides an error:
\* all of them, or one short.
Counts(want) == IF want > 0 THEN {want, want - 1} ELSE {want}

\* ------------------------------------------------------------- systemWrite
\* The splice guard of systemWrite, unnamed part (lines 312-313).
wantSplice_part000(m, r) ==
  /\ m.canSplice
  /\ flatDataSize(r) < MaxPipeSize - pageSize * 2
  /\ (r.kind = "fd" \/ (m.MinSpliceSize > 0 /\ flatDataSize(r) >= m.MinSpliceSize))

\* The splice guard of systemWrite, fuse/server_linux.go (line 22).
wantSplice_server_linux(m, r) ==
  /\ m.canSplice
  /\ m.MinSpliceSize > 0
  /\ flatDataSize(r) > m.MinSpliceSize

wantSplice(b, m, r) ==
  IF b = "part_000" THEN wantSplice_part000(m, r) ELSE wantSplice_server_linux(m, r)

\* The size == 0 test is missing.
firstStepNoZeroCase(b, m, r) ==
  IF wantSplice(b, m, r) THEN "get1"
  ELSE IF r.kind = "fd" THEN "bytes"
  ELSE "writev"

\* Where systemWrite goes first: the direct write of the header, the splice
\* pipeline, or the scatter-write path.
firstStep(b, m, r) ==
  IF flatDataSize(r) = 0 THEN "write"
  ELSE IF wantSplice(b, m, r) THEN "get1"
  ELSE IF r.kind = "fd" THEN "bytes"
  ELSE "writev"

NoTrace == [pair1Sz |-> -1, pair2Sz |-> -1, hdrN |-> -1, loadN |-> -1,
            moveN |-> -1, total |-> -1]

ChanOp(op, want, got, res) == [op |-> op, want |-> want, got |-> got, res |-> res]

\* A writer is handed a response and calls systemWrite(req, header); the
\* header is the one serialized for the payload size.
systemWrite(t) ==
  /\ t \in active
  /\ pc[t] \in {"idle", "done"}
  /\ \E kind \in load.kinds, n \in load.sizes, rr \in load.signals :
       LET r == NewRequest(t, kind, n, rr) IN
       /\ req' = [req EXCEPT ![t] = r]
       /\ header' = [header EXCEPT ![t] = serializeHeader(t, n)]
       /\ pc' = [pc EXCEPT ![t] = firstStep(build, ms, r)]
  /\ chan' = [chan EXCEPT ![t] = <<>>]
  /\ doneCnt' = [doneCnt EXCEPT ![t] = 0]
  /\ spliceErr' = [spliceErr EXCEPT ![t] = "none"]
  /\ ret' = [ret EXCEPT ![t] = "none"]
  /\ eintr' = [eintr EXCEPT ![t] = 0]
  /\ trace' = [trace EXCEPT ![t] = NoTrace]
  /\ UNCHANGED <<build, ms, active, load, pair1, pair2, pool>>

\* handleEINTR(fn): fn is called again as long as it reports EINTR.
handleEINTR(res) == res = "EINTR"

\* size == 0: syscall.Write(ms.mountFd, header) under handleEINTR.
directWrite(t) ==
  /\ pc[t] = "write"
  /\ \E res \in {"ok", "err"} \cup (IF eintr[t] < MaxEINTR THEN {"EINTR"} ELSE {}) :
       /\ chan' = [chan EXCEPT ![t] =
                     Append(@, ChanOp("write", header[t],
                                      IF res = "ok" THEN header[t] ELSE <<>>, res))]
       /\ IF handleEINTR(res)
          THEN /\ eintr' = [eintr EXCEPT ![t] = @ + 1]
               /\ UNCHANGED <<pc, ret>>
          ELSE /\ pc' = [pc EXCEPT ![t] = "done"]
               /\ ret' = [ret EXCEPT ![t] = ToStatus(IF res = "ok" THEN "nil" ELSE res)]
               /\ UNCHANGED eintr
  /\ UNCHANGED <<build, ms, active, load, req, header, pair1, pair2, pool, doneCnt,
                 spliceErr, trace>>

\* --------------------------------------------------------------- trySplice
\* trySplice returns e, "nil" for success (the deferred Done calls run in
\* spliceReturn).
returns(t, e) ==
  /\ spliceErr' = [spliceErr EXCEPT ![t] = e]
  /\ pc' = [pc EXCEPT ![t] = "sret"]

\* One pipe pair kept for every transfer instead of a borrowed one.
getSharedPair(pl) == {1}

\* splice.Get() as trySplice calls it: a pair of its own for each call
\*                                                             (lines 31, 69)
getPair(pl) == GetOutcomes(pl)

\* pair1, err := splice.Get(); defer splice.Done(pair1)      (lines 31-35)
get1(t) ==
  /\ pc[t] = "get1"
  /\ \E p \in getPair(pool) :
       IF p = NoPair
       THEN /\ returns(t, "get")
            /\ UNCHANGED <<pool, pair1>>
       ELSE /\ pool' = Borrow(pool, p, t)
            /\ pair1' = [pair1 EXCEPT ![t] = p]
            /\ pc' = [pc EXCEPT ![t] = "grow1"]
            /\ UNCHANGED spliceErr
  /\ UNCHANGED <<build, ms, active, load, req, header, pair2, chan, doneCnt, ret, eintr, trace>>

\* pair1Sz := size + pageSize                                  (line 40)
pair1Sz(r) == flatDataSize(r) + pageSize

\* pair1.Grow(pair1Sz)                                         (lines 37-43)
grow1(t) ==
  /\ pc[t] = "grow1"
  /\ trace' = [trace EXCEPT ![t].pair1Sz = pair1Sz(req[t])]
  /\ \E c \in GrowOutcomes(pool[pair1[t]].cap, pair1Sz(req[t])) :
       IF c = 0
       THEN /\ returns(t, "grow")
            /\ UNCHANGED pool
       ELSE /\ pool' = [pool EXCEPT ![pair1[t]].cap = c]
            /\ pc' = [pc EXCEPT ![t] = "load1"]
            /\ UNCHANGED spliceErr
  /\ UNCHANGED <<build, ms, active, load, req, header, pair1, pair2, chan, doneCnt, ret, eintr>>

\* The payload buffers handed to writev: req.slices, or the one flat buffer.
payloadBufs(r) == IF r.kind = "slices" THEN r.slices ELSE <<r.flatData>>

\* Payload into pair1 (lines 45-67): from the file with LoadFromAt, whose
\* count is compared with size, or from memory with writev, whose count is
\* dropped.
load1(t) ==
  /\ pc[t] = "load1"
  /\ LET size == flatDataSize(req[t]) IN
     \E n \in Counts(size) \cup {-1} :
       IF n = -1
       THEN /\ returns(t, "load")
            /\ UNCHANGED pool
       ELSE LET src == IF req[t].kind = "fd" THEN Data(t, size)
                       ELSE Flatten(payloadBufs(req[t])) IN
            /\ pool' = [pool EXCEPT ![pair1[t]].buf = Take(src, n)]
            /\ IF req[t].kind = "fd" /\ n # size
               THEN returns(t, "short read from file")
               ELSE /\ pc' = [pc EXCEPT ![t] = "get2"]
                    /\ UNCHANGED spliceErr
  /\ UNCHANGED <<build, ms, active, load, req, header, pair1, pair2, chan, doneCnt, ret,
                 eintr, trace>>

\* pair2, err := splice.Get(); defer splice.Done(pair2)      (lines 69-74)
get2(t) ==
  /\ pc[t] = "get2"
  /\ \E p \in getPair(pool) :
       IF p = NoPair
       THEN /\ returns(t, "get")
            /\ UNCHANGED <<pool, pair2>>
       ELSE /\ pool' = Borrow(pool, p, t)
            /\ pair2' = [pair2 EXCEPT ![t] = p]
            /\ pc' = [pc EXCEPT ![t] = "grow2"]
            /\ UNCHANGED spliceErr
  /\ UNCHANGED <<build, ms, active, load, req, header, pair1, chan, doneCnt, ret, eintr, trace>>

\* total := len(header) + size                                 (line 79)
total(h, r) == Len(h) + flatDataSize(r)

\* pair2Sz := total + pageSize                                 (line 80)
pair2Sz(h, r) == total(h, r) + pageSize

\* header = req.serializeHeader(size); pair2.Grow(pair2Sz)     (lines 76-83)
grow2(t) ==
  /\ pc[t] = "grow2"
  /\ LET h == serializeHeader(t, flatDataSize(req[t])) IN
     /\ header' = [header EXCEPT ![t] = h]
     /\ trace' = [trace EXCEPT ![t].pair2Sz = pair2Sz(h, req[t]),
                               ![t].total = total(h, req[t])]
     /\ \E c \in GrowOutcomes(pool[pair2[t]].cap, pair2Sz(h, req[t])) :
          IF c = 0
          THEN /\ returns(t, "grow")
               /\ UNCHANGED pool
          ELSE /\ pool' = [pool EXCEPT ![pair2[t]].cap = c]
               /\ pc' = [pc EXCEPT ![t] = "hdr"]
               /\ UNCHANGED spliceErr
  /\ UNCHANGED <<build, ms, active, load, req, pair1, pair2, chan, doneCnt, ret, eintr>>

\* Whether a step that reported n bytes of want is taken as complete.
fullCount(n, want) == n = want

\* The header goes to the channel descriptor instead of pair2.
pairWriteToMount(pl, c, p, bs) ==
  [pool |-> pl, chan |-> Append(c, ChanOp("write", bs, bs, "ok"))]

\* pair2.Write(header): the bytes written go into the pipe of pair2; the
\* channel is not involved.                                    (line 85)
pairWrite(pl, c, p, bs) ==
  [pool |-> [pl EXCEPT ![p].buf = @ \o bs], chan |-> c]

\* n, err := pair2.Write(header)                               (lines 85-92)
writeHdr(t) ==
  /\ pc[t] = "hdr"
  /\ \E n \in Counts(Len(header[t])) \cup {-1} :
       IF n = -1
       THEN /\ returns(t, "write")
            /\ UNCHANGED <<pool, chan, trace>>
       ELSE LET w == pairWrite(pool, chan[t], pair2[t], Take(header[t], n)) IN
            /\ pool' = w.pool
            /\ chan' = [chan EXCEPT ![t] = w.chan]
            /\ trace' = [trace EXCEPT ![t].hdrN = n]
            /\ IF ~fullCount(n, Len(header[t]))
               THEN returns(t, "short write into splice")
               ELSE /\ pc' = [pc EXCEPT ![t] = "load2"]
                    /\ UNCHANGED spliceErr
  /\ UNCHANGED <<build, ms, active, load, req, header, pair1, pair2, doneCnt, ret, eintr>>

\* n, err = pair2.LoadFrom(pair1.ReadFd(), size)               (lines 94-101)
\* The splice moves what pair1 holds, at most size bytes, or fewer.
load2(t) ==
  /\ pc[t] = "load2"
  /\ LET size == flatDataSize(req[t])
         have == pool[pair1[t]].buf IN
     \E n \in Counts(Min(size, Len(have))) \cup {-1} :
       IF n = -1
       THEN /\ returns(t, "load")
            /\ UNCHANGED <<pool, trace>>
       ELSE /\ pool' = [pool EXCEPT ![pair1[t]].buf = Drop(have, n),
                                    ![pair2[t]].buf = @ \o Take(have, n)]
            /\ trace' = [trace EXCEPT ![t].loadN = n]
            /\ IF ~fullCount(n, size)
               THEN returns(t, "short splice")
               ELSE /\ pc' = [pc EXCEPT ![t] = "move"]
                    /\ UNCHANGED spliceErr
  /\ UNCHANGED <<build, ms, active, load, req, header, pair1, pair2, chan, doneCnt, ret, eintr>>

\* What trySplice returns after the final move reported n bytes and no
\* error: `_, err = pair2.WriteTo(...); return err`, the count is dropped.
moveResult(n, want) == "nil"

\* _, err = pair2.WriteTo(uintptr(ms.mountFd), total); return err
\*                                                             (lines 103-105)
move(t) ==
  /\ pc[t] = "move"
  /\ LET have == pool[pair2[t]].buf
         tot  == total(header[t], req[t]) IN
     \E n \in Counts(Min(tot, Len(have))) \cup {-1} :
       IF n = -1
       THEN /\ chan' = [chan EXCEPT ![t] = Append(@, ChanOp("splice", Take(have, tot), <<>>, "err"))]
            /\ returns(t, "move")
            /\ UNCHANGED <<pool, trace>>
       ELSE /\ chan' = [chan EXCEPT ![t] =
                          Append(@, ChanOp("splice", Take(have, tot), Take(have, n), "ok"))]
            /\ pool' = [pool EXCEPT ![pair2[t]].buf = Drop(have, n)]
            /\ trace' = [trace EXCEPT ![t].moveN = n]
            /\ returns(t, moveResult(n, tot))
  /\ UNCHANGED <<build, ms, active, load, req, header, pair1, pair2, doneCnt, ret, eintr>>

\* Only pair2 is handed back: the defer of pair1 is missing.
deferredDonePair2Only(pl, p1, p2) == spliceDone(pl, p2)

\* The deferred splice.Done(pair2), splice.Done(pair1) of trySplice.
deferredDone(pl, p1, p2) == spliceDone(spliceDone(pl, p2), p1)

\* A failed trySplice ends systemWrite.
afterSpliceErrorFatal(r) == "done"

\* Where systemWrite goes after trySplice failed: it logs the error and falls
\* through to the scatter-write path.                          (lines 321-324)
afterSpliceError(r) == IF r.kind = "fd" THEN "bytes" ELSE "writev"

\* req.readResult.Done() under `if req.readResult != nil`.
markDone(r) == IF r.readResult THEN 1 ELSE 0

\* trySplice returns: its deferred calls run, and systemWrite looks at err
\* (unnamed part, lines 314-322; server_linux.go, lines 23-31).
spliceReturn(t) ==
  /\ pc[t] = "sret"
  /\ pool' = deferredDone(pool, pair1[t], pair2[t])
  /\ pair1' = [pair1 EXCEPT ![t] = NoPair]
  /\ pair2' = [pair2 EXCEPT ![t] = NoPair]
  /\ IF spliceErr[t] = "nil"
     THEN /\ doneCnt' = [doneCnt EXCEPT ![t] = @ + markDone(req[t])]
          /\ ret' = [ret EXCEPT ![t] = "OK"]
          /\ pc' = [pc EXCEPT ![t] = "done"]
     ELSE /\ pc' = [pc EXCEPT ![t] = afterSpliceError(req[t])]
          /\ UNCHANGED <<doneCnt, ret>>
  /\ UNCHANGED <<build, ms, active, load, req, header, chan, spliceErr, eintr, trace>>

\* fdData.Bytes(buf): the whole payload, a shorter read, or a failed read;
\* each with its status.
BytesOutcomes(t, size) ==
  {[data |-> Take(Data(t, size), n), st |-> "OK"] : n \in Counts(size)}
    \cup {[data |-> <<>>, st |-> "EIO"]}

\* The header systemWrite was called with is written as it is.
headerAsPassed(t, h, data) == h

\* header = req.serializeHeader(len(req.flatData))            (unnamed part,
\* line 329; server_linux.go, line 38)
headerAfterBytes(t, h, data) == serializeHeader(t, Len(data))

\* The file-backed payload is read into memory and the header serialized
\* again for what was read (unnamed part, lines 324-330).
bytes(t) ==
  /\ pc[t] = "bytes"
  /\ \E o \in BytesOutcomes(t, flatDataSize(req[t])) :
       /\ req' = [req EXCEPT ![t].flatData = o.data, ![t].status = o.st]
       /\ header' = [header EXCEPT ![t] = headerAfterBytes(t, header[t], o.data)]
  /\ pc' = [pc EXCEPT ![t] = "writev"]
  /\ UNCHANGED <<build, ms, active, load, pair1, pair2, pool, chan, doneCnt, spliceErr,
                 ret, eintr, trace>>

\* bufs := [][]byte{header} followed by the payload buffers    (lines 332-337)
writevBufs(h, r) == <<h>> \o payloadBufs(r)

\* _, err := writev(ms.mountFd, bufs); Done; return ToStatus(err)
\*                                                             (lines 338-342)
writev(t) ==
  /\ pc[t] = "writev"
  /\ \E res \in {"ok", "err"} :
       LET want == Flatten(writevBufs(header[t], req[t])) IN
       /\ chan' = [chan EXCEPT ![t] =
                     Append(@, ChanOp("writev", want, IF res = "ok" THEN want ELSE <<>>, res))]
       /\ ret' = [ret EXCEPT ![t] = ToStatus(IF res = "ok" THEN "nil" ELSE res)]
  /\ doneCnt' = [doneCnt EXCEPT ![t] = @ + markDone(req[t])]
  /\ pc' = [pc EXCEPT ![t] = "done"]
  /\ UNCHANGED <<build, ms, active, load, req, header, pair1, pair2, pool, spliceErr,
                 eintr, trace>>

\* ------------------------------------------------------- the writer machine
Builds == {"server_linux", "part_000"}
MinSpliceSizes == {0, 2}

\* Every response the writer can be handed.
AnyLoad == [kinds |-> Kinds, sizes |-> 0..MaxPayload, signals |-> BOOLEAN]

WInitWith(act, bs, mss, ld) ==
  /\ build \in bs
  /\ ms \in mss
  /\ active = act
  /\ load = ld
  /\ req = [t \in Writers |-> NewRequest(t, "flat", 0, FALSE)]
  /\ header = [t \in Writers |-> <<>>]
  /\ pc = [t \in Writers |-> "idle"]
  /\ pair1 = [t \in Writers |-> NoPair]
  /\ pair2 = [t \in Writers |-> NoPair]
  /\ pool = [p \in Pairs |-> NoPipe]
  /\ chan = [t \in Writers |-> <<>>]
  /\ doneCnt = [t \in Writers |-> 0]
  /\ spliceErr = [t \in Writers |-> "none"]
  /\ ret = [t \in Writers |-> "none"]
  /\ eintr = [t \in Writers |-> 0]
  /\ trace = [t \in Writers |-> NoTrace]

WInit(act) ==
  WInitWith(act, Builds, [canSplice : BOOLEAN, MinSpliceSize : MinSpliceSizes], AnyLoad)

Step(t) ==
  \/ systemWrite(t)
  \/ directWrite(t)
  \/ get1(t)
  \/ grow1(t)
  \/ load1(t)
  \/ get2(t)
  \/ grow2(t)
  \/ writeHdr(t)
  \/ load2(t)
  \/ move(t)
  \/ spliceReturn(t)
  \/ bytes(t)
  \/ writev(t)

\* =================================================================== mount
MaxFileLen == 3      \* longest last path element of a mountpoint tried

\* Strings are sequences of characters.
Digits == {"0", "1", "2", "3", "4", "5", "6", "7", "8", "9"}
DigitVal(c) == CASE c = "0" -> 0 [] c = "1" -> 1 [] c = "2" -> 2 [] c = "3" -> 3
                 [] c = "4" -> 4 [] c = "5" -> 5 [] c = "6" -> 6 [] c = "7" -> 7
                 [] c = "8" -> 8 [] c = "9" -> 9
DevFd == <<"/", "d", "e", "v", "/", "f", "d", "/">>

\* path.Split(path): everything up to and including the last slash, and the
\* rest.
LastSlash(p) ==
  IF \E i \in 1..Len(p) : p[i] = "/"
  THEN CHOOSE i \in 1..Len(p) : p[i] = "/" /\ \A j \in (i + 1)..Len(p) : p[j] # "/"
  ELSE 0
pathSplit(p) == [dir |-> SubSeq(p, 1, LastSlash(p)), file |-> SubSeq(p, LastSlash(p) + 1, Len(p))]

RECURSIVE Decimal(_)
Decimal(s) == IF s = <<>> THEN 0
              ELSE 10 * Decimal(SubSeq(s, 1, Len(s) - 1)) + DigitVal(s[Len(s)])

\* strconv.Atoi(s): an optional sign, then one or more decimal digits.
Atoi(s) ==
  LET signed == s # <<>> /\ s[1] \in {"+", "-"}
      ds     == IF signed THEN Tail(s) ELSE s
  IN  IF ds = <<>> \/ \E i \in 1..Len(ds) : ds[i] \notin Digits
      THEN [n |-> 0, err |-> TRUE]
      ELSE [n |-> IF signed /\ s[1] = "-" THEN 0 - Decimal(ds) ELSE Decimal(ds),
            err |-> FALSE]

\* The test of parseFuseFd that rejects a parsed number (line 178: fd <= 0).
rejectFd(fd) == fd <= 0

\* parseFuseFd(mountPoint)                                     (lines 172-182)
parseFuseFd(mountPoint) ==
  IF pathSplit(mountPoint).dir # DevFd THEN -1
  ELSE IF Atoi(pathSplit(mountPoint).file).err
            \/ rejectFd(Atoi(pathSplit(mountPoint).file).n) THEN -1
  ELSE Atoi(pathSplit(mountPoint).file).n

\* The mountpoints tried: a directory followed by up to MaxFileLen characters.
Alphabet == {"0", "7", "-", "+", "a", "/"}
Dirs == {DevFd, <<"/", "t", "m", "p", "/">>, <<"/", "d", "e", "v", "/", "f", "d">>, <<>>}
Files == UNION {[1..n -> Alphabet] : n \in 0..MaxFileLen}
MountPoints == {d \o f : d \in Dirs, f \in Files}

VARIABLES
  mountPoint, \* the mountpoint string
  opts,       \* MountOptions: DirectMount
  mpc,        \* position of mount
  mfd,        \* mount's fd variable
  merr,       \* mount's err variable ("nil" or an error)
  ready,      \* number of close(ready) calls
  openFds,    \* descriptors this process opened during mount and not closed
  how,        \* the strategy that produced the descriptor, "none" before
  events,     \* system calls and helper runs, in order
  msg,        \* the message the fusermount helper leaves on the socket
  conn        \* what getConnection returned, once it was called

mvars == <<mountPoint, opts, mpc, mfd, merr, ready, openFds, how, events, msg, conn>>

DevFuseFd == 3       \* the descriptor syscall.Open("/dev/fuse") returns
HelperFds == {5}     \* descriptors the fusermount helper passes back

\* mount(mountPoint, opts, ready) is called                    (lines 186-187)
mount ==
  /\ mpc = "start"
  /\ mpc' = IF opts.DirectMount THEN "open" ELSE "parse"
  /\ UNCHANGED <<mountPoint, opts, mfd, merr, ready, openFds, how, events, msg, conn>>

\* mountDirect: syscall.Open("/dev/fuse")                      (lines 65-68)
mountDirectOpen ==
  /\ mpc = "open"
  /\ \E ok \in BOOLEAN :
       IF ok
       THEN /\ openFds' = openFds \cup {DevFuseFd}
            /\ mpc' = "sysmount"
            /\ events' = Append(events, "open")
       ELSE /\ mpc' = "parse"
            /\ events' = Append(events, "open failed")
            /\ UNCHANGED openFds
  /\ UNCHANGED <<mountPoint, opts, mfd, merr, ready, how, msg, conn>>

\* The syscall.Close(fd) of the error path is missing.
afterMountNoClose(ok) ==
  [closeFd |-> FALSE, closeReady |-> IF ok THEN 1 ELSE 0,
   next |-> IF ok THEN "done" ELSE "parse"]

\* close(ready) placed before the error check of syscall.Mount.
afterMountReadyFirst(ok) ==
  [closeFd |-> ~ok, closeReady |-> 1, next |-> IF ok THEN "done" ELSE "parse"]

\* What mountDirect does after syscall.Mount returned          (lines 102-117):
\* on an error it closes the descriptor and returns; on success it closes
\* the ready channel.
afterMount(ok) ==
  IF ok THEN [closeFd |-> FALSE, closeReady |-> 1, next |-> "done"]
  ELSE [closeFd |-> TRUE, closeReady |-> 0, next |-> "parse"]

\* mountDirect: syscall.Mount and the return to mount         (lines 102-118,
\* 188-193)
mountDirectMount ==
  /\ mpc = "sysmount"
  /\ \E ok \in BOOLEAN :
       LET a == afterMount(ok) IN
       /\ events' = Append(events, IF ok THEN "mount" ELSE "mount failed")
       /\ openFds' = IF a.closeFd THEN openFds \ {DevFuseFd} ELSE openFds
       /\ ready' = ready + a.closeReady
       /\ mpc' = a.next
       /\ IF ok
          THEN mfd' = DevFuseFd /\ merr' = "nil" /\ how' = "direct"
          ELSE UNCHANGED <<mfd, merr, how>>
  /\ UNCHANGED <<mountPoint, opts, msg, conn>>

\* fd = parseFuseFd(mountPoint); if fd >= 0 {...} else {...}   (lines 198-209)
parseMagic ==
  /\ mpc = "parse"
  /\ mfd' = parseFuseFd(mountPoint)
  /\ IF mfd' >= 0
     THEN mpc' = "finish" /\ how' = "magic"
     ELSE mpc' = "helper" /\ UNCHANGED how
  /\ events' = Append(events, "parse")
  /\ UNCHANGED <<mountPoint, opts, merr, ready, openFds, msg, conn>>

\* ---------------------------------------------------------- getConnection
SizeofCmsghdr == 16  \* syscall.SizeofCmsghdr: Len (8 bytes), Level (4), Type (4)
ScmRights     == 1   \* the control type getConnection accepts
CtlLen        == 20  \* the bytes of the control buffer getConnection reads

\* A 32-bit integer as four little-endian bytes (two's complement), and
\* back.
Bytes32(v) ==
  LET w == IF v >= 0 THEN v ELSE (v + 2147483647) + 1
  IN  <<w % 256, (w \div 256) % 256, (w \div 65536) % 256,
        (w \div 16777216) + (IF v >= 0 THEN 0 ELSE 128)>>
Int32(bs) ==
  IF bs[4] < 128 THEN bs[1] + 256 * bs[2] + 65536 * bs[3] + 16777216 * bs[4]
  ELSE ((bs[1] + 256 * bs[2] + 65536 * bs[3] + 16777216 * (bs[4] - 128)) - 2147483647) - 1

\* The control message the sender built: header (Len, Level, Type), then the
\* descriptor.
SentControl(m) ==
  Bytes32(SizeofCmsghdr + 4) \o <<0, 0, 0, 0>> \o Bytes32(1) \o Bytes32(m.type) \o Bytes32(m.fd)

\* control := make([]byte, 4*256) after Recvmsg: the first oobn bytes are the
\* received ones, the rest is still zero.                      (lines 244-249)
Control(m) == [i \in 1..CtlLen |-> IF i <= m.oobn THEN SentControl(m)[i] ELSE 0]

\* message.Type and fd as read through the two pointer casts   (lines 254-255)
CtlType(m) == Int32(SubSeq(Control(m), SizeofCmsghdr - 3, SizeofCmsghdr))
CtlFd(m) == Int32(SubSeq(Control(m), SizeofCmsghdr + 1, SizeofCmsghdr + 4))

\* getConnection(local)                                        (lines 242-267)
getConnection(m) ==
  IF m.err THEN [fd |-> 0, err |-> "recvmsg"]
  ELSE IF CtlType(m) # ScmRights THEN [fd |-> 0, err |-> "wrong control type"]
  ELSE IF m.oobn <= SizeofCmsghdr THEN [fd |-> 0, err |-> "too short control message"]
  ELSE IF CtlFd(m) < 0 THEN [fd |-> 0, err |-> "fd < 0"]
  ELSE [fd |-> CtlFd(m), err |-> "nil"]

\* Messages: a failed Recvmsg, or oobn control bytes of a message that
\* carries a control type and a descriptor.
Oobns == {0, 12, 16, 17, 20, 24}
Msgs ==
  [err : {FALSE}, oobn : Oobns, type : {ScmRights, 2}, fd : HelperFds \cup {261, -1}]
    \cup {[err |-> TRUE, oobn |-> 0, type |-> ScmRights, fd |-> -1]}

\* What a well-behaved helper sends (one descriptor), and a wrong message.
MountMsgs ==
  {[err |-> FALSE, oobn |-> 24, type |-> ScmRights, fd |-> f] : f \in HelperFds}
    \cup {[err |-> FALSE, oobn |-> 24, type |-> 2, fd |-> -1]}

NoConn == [called |-> FALSE, fd |-> 0, err |-> "nil"]

\* callFusermount(mountPoint, opts): what it returns           (lines 125-168)
\* An error of an earlier stage, or what getConnection made of the message.
FusermountOutcomes(m) ==
  {[fd |-> 0, err |-> e, conn |-> NoConn] :
     e \in {"socketpair", "no fusermount", "start", "wait", "exit code"}}
    \cup {[fd   |-> IF getConnection(m).err = "nil" THEN getConnection(m).fd ELSE -1,
           err  |-> getConnection(m).err,
           conn |-> [called |-> TRUE, fd |-> getConnection(m).fd,
                     err |-> getConnection(m).err]]}

\* fd, err = callFusermount(mountPoint, opts); if err != nil { return }
\*                                                             (lines 205-208)
callFusermount ==
  /\ mpc = "helper"
  /\ \E o \in FusermountOutcomes(msg) :
       /\ mfd' = o.fd
       /\ merr' = o.err
       /\ conn' = o.conn
       /\ IF o.err = "nil"
          THEN mpc' = "finish" /\ how' = "helper" /\ openFds' = openFds \cup {o.fd}
          ELSE mpc' = "done" /\ UNCHANGED <<how, openFds>>
  /\ events' = Append(events, "fusermount")
  /\ UNCHANGED <<mountPoint, opts, ready, msg>>

\* syscall.CloseOnExec(fd); close(ready); return fd, err       (lines 213-215)
mountFinish ==
  /\ mpc = "finish"
  /\ ready' = ready + 1
  /\ mpc' = "done"
  /\ events' = Append(events, "cloexec")
  /\ UNCHANGED <<mountPoint, opts, mfd, merr, openFds, how, msg, conn>>

MInitWith(mps, msgs) ==
  /\ mountPoint \in mps
  /\ msg \in msgs
  /\ conn = NoConn
  /\ opts \in [DirectMount : BOOLEAN]
  /\ mpc = "start"
  /\ mfd = -1
  /\ merr = "nil"
  /\ ready = 0
  /\ openFds = {}
  /\ how = "none"
  /\ events = <<>>

MInit == MInitWith(MountPoints, MountMsgs)

\* No mount in progress (the writer specification).
MIdle ==
  /\ mountPoint = <<>>
  /\ msg \in {m \in MountMsgs : m.fd = -1}
  /\ conn = NoConn
  /\ opts = [DirectMount |-> FALSE]
  /\ mpc = "idle"
  /\ mfd = -1
  /\ merr = "nil"
  /\ ready = 0
  /\ openFds = {}
  /\ how = "none"
  /\ events = <<>>

\* No writer running (the mount specification).
WIdle ==
  /\ WInit({})
  /\ build = "part_000"
  /\ ms = [canSplice |-> FALSE, MinSpliceSize |-> 0]

MStep ==
  \/ mount
  \/ mountDirectOpen
  \/ mountDirectMount
  \/ parseMagic
  \/ callFusermount
  \/ mountFinish

\* ----------------------------------------------------------------- unmount
VARIABLES
  upc,   \* position of unmount
  uerr,  \* what unmount returned: <<>> for nil, else the parts of the error
  ucmd   \* the run of "fusermount -u": captured stderr and cmd.Run's error

uvars == <<upc, uerr, ucmd>>

NoCmd == [ran |-> FALSE, text |-> "", err |-> "nil"]
Stderrs == {"", "busy"}
RunErrs == {"nil", "exit status 1"}

\* %v of an error value.
ErrText(err) == IF err = "nil" THEN "<nil>" ELSE err

\* The formatted failure only when cmd.Run failed as well.
helperResultOnlyWhenFailed(text, err) ==
  IF text # "" /\ err # "nil" THEN <<text, " (code ", ErrText(err), ")\n">>
  ELSE IF err = "nil" THEN <<>> ELSE <<err>>

\* if errBuf.Len() > 0 { return fmt.Errorf("%s (code %v)\n", ...) }
\* return err                                                  (lines 235-239)
helperResult(text, err) ==
  IF text # "" THEN <<text, " (code ", ErrText(err), ")\n">>
  ELSE IF err = "nil" THEN <<>> ELSE <<err>>

\* The direct unmount chosen by the strategy that mounted.
tryDirectIfUsed(o, h) == h = "direct"

\* if opts.DirectMount { ... }                                 (line 219)
tryDirect(o, h) == o.DirectMount

\* unmount(mountPoint, opts) is called on a mounted session    (lines 218-219)
unmount ==
  /\ mpc = "done" /\ merr = "nil"
  /\ upc = "idle"
  /\ upc' = IF tryDirect(opts, how) THEN "sys" ELSE "lookup"
  /\ UNCHANGED <<uerr, ucmd, mvars>>

\* err := syscall.Unmount(mountPoint, 0); if err == nil { return nil }
\*                                                             (lines 221-224)
unmountDirect ==
  /\ upc = "sys"
  /\ \E ok \in BOOLEAN :
       /\ events' = Append(events, IF ok THEN "umount" ELSE "umount failed")
       /\ upc' = IF ok THEN "done" ELSE "lookup"
       /\ uerr' = <<>>
  /\ UNCHANGED <<ucmd, mountPoint, opts, mpc, mfd, merr, ready, openFds, how, msg, conn>>

\* bin, err := fusermountBinary(); if err != nil { return err } (lines 227-230)
unmountLookup ==
  /\ upc = "lookup"
  /\ \E found \in BOOLEAN :
       /\ events' = Append(events, IF found THEN "lookup" ELSE "lookup failed")
       /\ upc' = IF found THEN "run" ELSE "done"
       /\ uerr' = IF found THEN uerr ELSE <<"no fusermount">>
  /\ UNCHANGED <<ucmd, mountPoint, opts, mpc, mfd, merr, ready, openFds, how, msg, conn>>

\* cmd.Stderr = &errBuf; err = cmd.Run(); ...; return err      (lines 231-239)
unmountHelper ==
  /\ upc = "run"
  /\ \E text \in Stderrs, err \in RunErrs :
       /\ ucmd' = [ran |-> TRUE, text |-> text, err |-> err]
       /\ uerr' = helperResult(text, err)
  /\ events' = Append(events, "fusermount -u")
  /\ upc' = "done"
  /\ UNCHANGED <<mountPoint, opts, mpc, mfd, merr, ready, openFds, how, msg, conn>>

UIdle ==
  /\ upc = "idle"
  /\ uerr = <<>>
  /\ ucmd = NoCmd

UStep ==
  \/ unmount
  \/ unmountDirect
  \/ unmountLookup
  \/ unmountHelper

\* ---------------------------------------------------------- specifications
vars == <<wvars, mvars, uvars>>

\* Responses written by one writer.
Init == WInit({1}) /\ MIdle /\ UIdle
Next == (\E t \in Writers : Step(t)) /\ UNCHANGED <<mvars, uvars>>
Spec == Init /\ [][Next]_vars

\* Responses written by two writers at once; the session produces empty and
\* small file-backed responses, which are spliced.
ConcWriters == {1, 2}
ConcLoad == [kinds |-> {"fd"}, sizes |-> {0, 3}, signals |-> {FALSE}]
ConcInit ==
  /\ WInitWith(ConcWriters, {"part_000"}, {[canSplice |-> TRUE, MinSpliceSize |-> 2]}, ConcLoad)
  /\ MIdle
  /\ UIdle
SpecConc == ConcInit /\ [][Next]_vars

\* One mount.
MountInit == WIdle /\ MInit /\ UIdle
MountNext == MStep /\ UNCHANGED <<wvars, uvars>>
SpecMount == MountInit /\ [][MountNext]_vars

\* One mount through the helper, over every message.
TmpMnt == <<"/", "t", "m", "p", "/", "a">>
HelperInit == WIdle /\ MInitWith({TmpMnt}, Msgs) /\ UIdle
SpecHelper == HelperInit /\ [][MountNext]_vars

\* One session: mount, then unmount.
DevFd7 == DevFd \o <<"7">>
SessionInit == WIdle /\ MInitWith({TmpMnt, DevFd7}, MountMsgs) /\ UIdle
SessionNext ==
  \/ MStep /\ UNCHANGED <<wvars, uvars>>
  \/ UStep /\ UNCHANGED wvars
SpecSession == SessionInit /\ [][SessionNext]_vars

\* ------------------------------------------------------ systemWrite: claims
InSplice(t) == pc[t] \in {"get1", "grow1", "load1", "get2", "grow2", "hdr", "load2",
                          "move", "sret"}
Returned(t) == pc[t] = "done"
SpliceAttempted(t) == InSplice(t) \/ spliceErr[t] # "none"
SpliceFailed(t) == spliceErr[t] \notin {"none", "nil"}

\* The channel system calls of t's response that delivered bytes, and the
\* bytes the channel received for it.
Delivering(t) == SelectSeq(chan[t], LAMBDA o : o.got # <<>>)
Received(t) == Flatten([i \in 1..Len(chan[t]) |-> chan[t][i].got])

\* The payload P of t's response as it is sent: the buffers in memory, or
\* the file's bytes (on the scatter-write path, the bytes read from it).
PayloadSent(t) ==
  IF req[t].kind = "fd" /\ spliceErr[t] = "nil" THEN Data(t, req[t].fdSize)
  ELSE Flatten(payloadBufs(req[t]))

\* H ++ P: the header serialized for P, then P.
Response(t) == serializeHeader(t, Len(PayloadSent(t))) \o PayloadSent(t)

\* C1: a response that carries a completion signal has had Done called
\* exactly once when systemWrite has returned, on every path (the zero-size
\* path included).
C1_DoneExactlyOnce ==
  \A t \in Writers : (Returned(t) /\ req[t].readResult) => doneCnt[t] = 1

\* C2: whenever systemWrite reports success, the channel received exactly
\* H ++ P for the response, in one channel-writing operation.
C2_SuccessDeliversHP ==
  \A t \in Writers :
    (Returned(t) /\ ret[t] = "OK") =>
      /\ Len(Delivering(t)) = 1
      /\ Received(t) = Response(t)

\* C3: after a failed trySplice, systemWrite has issued the scatter-write of
\* header followed by payload, exactly once and as its last channel call, and
\* has returned the status of that scatter-write and nothing else.
C3_SpliceFailureFallsBack ==
  \A t \in Writers :
    (Returned(t) /\ SpliceFailed(t)) =>
      /\ Len(SelectSeq(chan[t], LAMBDA o : o.op = "writev")) = 1
      /\ chan[t][Len(chan[t])].op = "writev"
      /\ chan[t][Len(chan[t])].want = Response(t)
      /\ ret[t] = (IF chan[t][Len(chan[t])].res = "ok" THEN "OK" ELSE "EIO")

C3_Witness ==
  \E t \in Writers :
    /\ Returned(t) /\ spliceErr[t] = "grow" /\ ret[t] = "OK"
    /\ req[t].kind = "slices" /\ Received(t) = Response(t)

\* The splice condition as the claim states it.
ClaimedSpliceCondition(t) ==
  /\ ms.canSplice
  /\ flatDataSize(req[t]) < MaxPipeSize - 2 * pageSize
  /\ \/ req[t].kind = "fd"
     \/ ms.MinSpliceSize # 0 /\ flatDataSize(req[t]) >= ms.MinSpliceSize

\* C4: for a nonzero payload the splice pipeline is attempted if and only if
\* canSplice, size < MaxPipeSize - 2 pages, and (file-backed, or the threshold
\* is nonzero and size >= threshold); otherwise the response goes out by one
\* vectored write and the pipeline is never invoked.
C4_SpliceIffCondition ==
  \A t \in Writers :
    (pc[t] # "idle" /\ flatDataSize(req[t]) > 0) =>
      /\ SpliceAttempted(t) <=> ClaimedSpliceCondition(t)
      /\ (Returned(t) /\ ~ClaimedSpliceCondition(t)) =>
           (Len(chan[t]) = 1 /\ chan[t][1].op = "writev")

\* C5: with a zero-size payload the only channel calls are writes of the
\* header (len(header) bytes), repeated while interrupted; exactly one of them
\* is not interrupted and its outcome is what systemWrite returns; no pipe
\* pair is borrowed and no vectored write or splice is issued.
C5_ZeroSizeOneWrite ==
  \A t \in Writers :
    (pc[t] # "idle" /\ flatDataSize(req[t]) = 0) =>
      /\ pc[t] \in {"write", "done"}
      /\ ~SpliceAttempted(t) /\ Held(pool, t) = {} /\ trace[t] = NoTrace
      /\ \A i \in 1..Len(chan[t]) :
           /\ chan[t][i].op = "write"
           /\ chan[t][i].want = serializeHeader(t, 0)
           /\ Len(chan[t][i].want) = HdrLen
           /\ (i < Len(chan[t]) => chan[t][i].res = "EINTR")
      /\ (pc[t] = "write" => \A i \in 1..Len(chan[t]) : chan[t][i].res = "EINTR")
      /\ Returned(t) =>
           /\ Len(chan[t]) >= 1
           /\ chan[t][Len(chan[t])].res # "EINTR"
           /\ ret[t] = (IF chan[t][Len(chan[t])].res = "ok" THEN "OK" ELSE "EIO")

C5_Witness ==
  \E t \in Writers :
    /\ Returned(t) /\ flatDataSize(req[t]) = 0 /\ ret[t] = "OK"
    /\ Len(chan[t]) = 2 /\ chan[t][1].res = "EINTR"

\* C6: outside trySplice no pipe pair is borrowed: every pair trySplice took
\* is back in the pool when it returns, on success and on every failure path.
C6_PairsReturned ==
  \A t \in Writers :
    ~InSplice(t) => Held(pool, t) = {}

C6_Witness ==
  \E t \in Writers :
    /\ Returned(t) /\ spliceErr[t] = "short splice"
    /\ \A p \in Pairs : pool[p].st # "used"
    /\ Cardinality({p \in Pairs : pool[p].st = "free"}) >= 2

C8_SuccessOnlyIfFullCounts ==
  \A t \in Writers :
    spliceErr[t] = "nil" =>
      /\ trace[t].hdrN = Len(header[t])
      /\ trace[t].loadN = flatDataSize(req[t])
      /\ trace[t].moveN = trace[t].total

\* ------------------------------------------------------------ mount: claims
\* C9: readiness is signalled at most once on every path; exactly once when
\* mount has returned a descriptor, and then only with the descriptor
\* obtained; never when mount has returned an error.
C9_ReadyOnceOnSuccess ==
  /\ ready <= 1
  /\ (mpc = "done" /\ merr = "nil") => ready = 1
  /\ (mpc = "done" /\ merr # "nil") => ready = 0
  /\ ready = 1 => (mpc = "done" /\ merr = "nil" /\ how # "none" /\ mfd >= 0)

\* Direct mount requested, failed at the mount system call, and the helper
\* then produced the descriptor.
C9_Witness ==
  /\ mpc = "done" /\ merr = "nil" /\ ready = 1 /\ how = "helper"
  /\ opts.DirectMount
  /\ \E i \in 1..Len(events) : events[i] = "mount failed"

\* A decimal numeral of a non-negative integer: digits, after an optional "+".
IsNumeral(s) ==
  LET ds == IF s # <<>> /\ s[1] = "+" THEN Tail(s) ELSE s
  IN  ds # <<>> /\ \A i \in 1..Len(ds) : ds[i] \in Digits

\* What the claim says parseFuseFd returns.
ClaimedFuseFd(p) ==
  IF Len(p) > Len(DevFd) /\ SubSeq(p, 1, Len(DevFd)) = DevFd
       /\ IsNumeral(SubSeq(p, Len(DevFd) + 1, Len(p)))
  THEN Decimal(LET f == SubSeq(p, Len(DevFd) + 1, Len(p))
               IN  IF f[1] = "+" THEN Tail(f) ELSE f)
  ELSE -1

\* C10: parseFuseFd returns N for a mountpoint /dev/fd/N with N a
\* non-negative integer, and -1 for every other string. (Stated on the value
\* mount holds right after calling it.)
C10_ParseFuseFd ==
  (mpc = "helper" \/ (mpc = "finish" /\ how = "magic")) =>
     mfd = ClaimedFuseFd(mountPoint)

\* C11: with a mountpoint of the magic shape /dev/fd/N, mount returns N as
\* the channel descriptor, and neither the mount system call nor the
\* fusermount helper is ever run, whatever the other options are.
C11_MagicBypassesMount ==
  ClaimedFuseFd(mountPoint) >= 0 =>
    /\ \A i \in 1..Len(events) : events[i] \notin {"mount", "mount failed", "fusermount"}
    /\ mpc = "done" => (merr = "nil" /\ mfd = ClaimedFuseFd(mountPoint))

\* -------------------------------------------------- getConnection: claims
\* C12: descriptor extraction returns the encoded integer when the control
\* type is the descriptor-passing type, more than a control header was
\* received and the integer is non-negative; a too-short control region (down
\* to zero length), a wrong control type and a negative value each give their
\* own error, and then no descriptor is returned. (Where a region is both
\* exactly one header long and of the wrong type, either error is accepted.)
C12_ExtractionErrors ==
  (conn.called /\ ~msg.err) =>
    /\ msg.oobn < SizeofCmsghdr => conn.err = "too short control message"
    /\ msg.oobn = SizeofCmsghdr =>
         /\ conn.err \in {"too short control message", "wrong control type"}
         /\ msg.type = ScmRights => conn.err = "too short control message"
    /\ (msg.oobn > SizeofCmsghdr /\ msg.type # ScmRights) => conn.err = "wrong control type"
    /\ (msg.oobn > SizeofCmsghdr /\ msg.type = ScmRights /\ CtlFd(msg) < 0) =>
         conn.err = "fd < 0"
    /\ (msg.oobn > SizeofCmsghdr /\ msg.type = ScmRights /\ CtlFd(msg) >= 0) =>
         (conn.err = "nil" /\ conn.fd = CtlFd(msg) /\ mfd = CtlFd(msg))
    /\ conn.err # "nil" => (mfd = -1 /\ merr = conn.err)

\* C16: a descriptor is returned only when the received ancillary bytes cover
\* a control header and the 4-byte descriptor, so that the value returned is
\* the one that was sent and no byte beyond the received length is part of it.
C16_DescriptorWithinReceived ==
  (conn.called /\ conn.err = "nil") =>
    /\ msg.oobn >= SizeofCmsghdr + 4
    /\ conn.fd = msg.fd

\* --------------------------------------------------------- unmount: claims
Count(ev) == Cardinality({i \in 1..Len(events) : events[i] \in ev})
UnmountEvents == {"umount", "umount failed", "lookup", "lookup failed", "fusermount -u"}
FirstUnmountEvent ==
  LET I == {i \in 1..Len(events) : events[i] \in UnmountEvents}
  IN IF I = {} THEN "none" ELSE events[CHOOSE i \in I : \A j \in I : i <= j]

\* C13 (as stated): when direct mount was used, the direct unmount system
\* call comes first and its success ends unmount without the helper; when it
\* fails, or direct mount was not used, the helper is run exactly once and
\* its outcome is the outcome of unmount.
C13_UnmountOrdering ==
  upc = "done" =>
    /\ how = "direct" => FirstUnmountEvent \in {"umount", "umount failed"}
    /\ (how = "direct" /\ Count({"umount"}) = 1) =>
         (Count({"fusermount -u"}) = 0 /\ uerr = <<>>)
    /\ (how # "direct" \/ Count({"umount failed"}) = 1) =>
         /\ Count({"fusermount -u"}) = 1
         /\ uerr = helperResult(ucmd.text, ucmd.err)

\* C13 (amended): when direct mount was requested, the direct unmount system
\* call is attempted first, once, and its success ends unmount with success
\* and without the helper; when it fails, or direct mount was not requested,
\* the helper is looked up once and, when found, run exactly once, and its
\* outcome (or the failed lookup) is the outcome of unmount; nothing is
\* retried. Without the request no direct unmount is attempted.
C13_UnmountOrderingRequested ==
  /\ Count({"umount", "umount failed"}) <= 1
  /\ Count({"lookup", "lookup failed"}) <= 1
  /\ Count({"fusermount -u"}) <= 1
  /\ upc = "done" =>
       /\ opts.DirectMount =>
            (FirstUnmountEvent \in {"umount", "umount failed"}
               /\ Count({"umount", "umount failed"}) = 1)
       /\ ~opts.DirectMount => Count({"umount", "umount failed"}) = 0
       /\ Count({"umount"}) = 1 =>
            (Count({"lookup", "lookup failed", "fusermount -u"}) = 0 /\ uerr = <<>>)
       /\ (~opts.DirectMount \/ Count({"umount failed"}) = 1) =>
            /\ Count({"lookup", "lookup failed"}) = 1
            /\ Count({"lookup"}) = 1 =>
                 (Count({"fusermount -u"}) = 1 /\ ucmd.ran
                    /\ uerr = helperResult(ucmd.text, ucmd.err))
            /\ Count({"lookup failed"}) = 1 =>
                 (Count({"fusermount -u"}) = 0 /\ uerr = <<"no fusermount">>)

\* Direct mount was requested, the session was mounted by the helper, the
\* direct unmount failed and the helper unmounted.
C13_Witness ==
  /\ upc = "done"
  /\ opts.DirectMount /\ how = "helper"
  /\ Count({"umount failed"}) = 1
  /\ Count({"fusermount -u"}) = 1
  /\ uerr = <<>>

\* C14: after the helper has run, unmount reports success exactly when
\* cmd.Run returned no error and no standard-error text was captured; text
\* together with an error gives the formatted failure that carries the text.
C14_HelperOutcome ==
  (upc = "done" /\ ucmd.ran) =>
    /\ uerr = <<>> <=> (ucmd.err = "nil" /\ ucmd.text = "")
    /\ (ucmd.text # "" /\ ucmd.err # "nil") =>
         uerr = <<ucmd.text, " (code ", ucmd.err, ")\n">>

\* The helper wrote to standard error and exited with an error; and a helper
\* that wrote to standard error although it exited without one.
C14_Witness ==
  /\ upc = "done" /\ ucmd.ran
  /\ ucmd.text = "busy" /\ ucmd.err = "exit status 1"
  /\ Len(uerr) = 4

\* ------------------------------------------- trySplice and fallback: claims
\* C15: inside trySplice only the final move writes to the channel: up to
\* that step, and after a failure at an earlier step, the channel has had no
\* operation for the response; the scatter-write that follows such a failure
\* is the first and only channel operation of the response.
C15_OnlyMoveTouchesChannel ==
  \A t \in Writers :
    /\ pc[t] \in {"get1", "grow1", "load1", "get2", "grow2", "hdr", "load2", "move"} =>
         chan[t] = <<>>
    /\ (SpliceFailed(t) /\ spliceErr[t] # "move") =>
         /\ pc[t] \in {"sret", "bytes", "writev"} => chan[t] = <<>>
         /\ Returned(t) => (Len(chan[t]) = 1 /\ chan[t][1].op = "writev")

\* trySplice failed after the header was in pair2, and the scatter-write
\* delivered the response.
C15_Witness ==
  \E t \in Writers :
    /\ Returned(t) /\ spliceErr[t] = "short splice"
    /\ trace[t].hdrN = HdrLen
    /\ Len(chan[t]) = 1 /\ chan[t][1].op = "writev" /\ chan[t][1].res = "ok"

\* C17: every channel write is given a header whose encoded payload length is
\* the number of payload bytes that follow it in that write; on the
\* scatter-write path of a file-backed payload these are the bytes read into
\* memory, and the header is the one serialized for their number.
C17_HeaderMatchesPayload ==
  \A t \in Writers : \A i \in 1..Len(chan[t]) :
    LET w == chan[t][i].want IN
    /\ Len(w) >= HdrLen
    /\ w[2] = Len(w) - HdrLen
    /\ (chan[t][i].op = "writev" /\ req[t].kind = "fd") =>
         w = serializeHeader(t, Len(req[t].flatData)) \o req[t].flatData

\* A file-backed payload read short on the scatter-write path and written.
C17_Witness ==
  \E t \in Writers :
    /\ Returned(t) /\ req[t].kind = "fd"
    /\ Len(chan[t]) = 1 /\ chan[t][1].op = "writev" /\ chan[t][1].res = "ok"
    /\ Len(req[t].flatData) > 0
    /\ Len(req[t].flatData) < req[t].fdSize

\* C19: whenever systemWrite has invoked trySplice, the two pipe capacities
\* trySplice asks for, size + page and len(header) + size + page, are at most
\* the platform's maximum pipe capacity.
C19_GrowWithinMax ==
  \A t \in Writers :
    (InSplice(t) /\ pc[t] # "sret") =>
      /\ pair1Sz(req[t]) <= MaxPipeSize
      /\ pair2Sz(serializeHeader(t, flatDataSize(req[t])), req[t]) <= MaxPipeSize

\* ------------------------------------------------------ descriptors: claims
\* C20: when mount goes on to the next strategy after mountDirect failed, the
\* descriptor mountDirect opened is closed; when mount has returned, on
\* success the only descriptor it left open is the one it returned, and on
\* failure it left none open.
C20_NoDescriptorLeak ==
  /\ mpc \in {"parse", "helper"} => openFds = {}
  /\ mpc = "done" =>
       /\ merr = "nil" => openFds \subseteq {mfd}
       /\ (merr = "nil" /\ how \in {"direct", "helper"}) => openFds = {mfd}
       /\ merr # "nil" => openFds = {}

\* mountDirect opened the device, syscall.Mount failed, and the helper then
\* mounted.
C20_Witness ==
  /\ mpc = "done" /\ merr = "nil" /\ how = "helper"
  /\ \E i \in 1..Len(events) : events[i] = "mount failed"
  /\ openFds = {mfd}
  /\ DevFuseFd \notin openFds

\* ------------------------------------------------------ concurrency: claims
HeldPairs(t) == {pair1[t], pair2[t]} \ {NoPair}

\* C18: with writers interleaved at will and no lock around the channel,
\* every channel write is given one whole response of one writer, its header
\* and then its own payload of the length the header carries (a spliced
\* response its whole payload), and no pipe pair is in the hands of two
\* transfers at once.
C18_NoMixing ==
  /\ \A t \in Writers : \A i \in 1..Len(chan[t]) :
       LET w == chan[t][i].want IN
       /\ Len(w) >= HdrLen
       /\ w = serializeHeader(t, w[2]) \o Data(t, w[2])
       /\ chan[t][i].op = "splice" => w[2] = flatDataSize(req[t])
  /\ \A t \in Writers : \A p \in HeldPairs(t) :
       pool[p].st = "used" /\ pool[p].by = t
  /\ \A t, u \in Writers : t # u => HeldPairs(t) \cap HeldPairs(u) = {}

\* Two transfers in flight: one about to move header and payload into the
\* channel, the other with its payload loaded into a pipe of its own.
C18_Witness ==
  \E t, u \in Writers :
    /\ t # u
    /\ pc[t] = "move" /\ Cardinality(HeldPairs(t)) = 2
    /\ pc[u] = "get2" /\ pool[pair1[u]].buf = Data(u, flatDataSize(req[u]))
    /\ chan[u] = <<>>

====
